---------------------------- MODULE Spec2Model ----------------------------
(***************************************************************************)
(* A model of pylearn2's training Monitor (pylearn2/monitor.py) and of the *)
(* activation schedule of the Generative Stochastic Network                *)
(* (pylearn2/models/gsn.py, GSN._run).                                     *)
(*                                                                         *)
(* A Python object is modelled by its __dict__: a function from attribute  *)
(* names to values, so that "the attribute exists" is "the name is in the  *)
(* DOMAIN".  A compiled Theano function is modelled by what it updates.    *)
(***************************************************************************)
EXTENDS Integers, Sequences, FiniteSets, TLC

(* ------------------------------ bounds -------------------------------- *)
\* number of Monitor.__call__ invocations explored
MaxCalls == 2
\* largest `batches` argument of set_dataset
MaxBatches == 2
\* number of examples in the monitoring dataset's stream
StreamLen == 3
\* largest number of autoencoders of a GSN
MaxAes == 4
\* largest `walkback` argument of GSN._run
MaxWalkback == 2

(* --------------------------- input domains ---------------------------- *)
\* channel names handed to add_channel
Names == {"c1", "c2"}
\* (ipt, val) pairs handed to add_channel: symbolic tensors, named
Exprs == {[ipt |-> "X1", val |-> "sum"], [ipt |-> "X2", val |-> "max"]}
\* `batch_size` arguments of set_dataset
BatchSizes == {2}

VARIABLES
    monitor,   \* the Monitor object's __dict__
    stream,    \* stream position of each dataset object
    calls,     \* number of Monitor.__call__ invocations so far
    last,      \* the last operation invoked, its arguments, what it raised
    gsn        \* the state of a GSN._run invocation

vars == <<monitor, stream, calls, last, gsn>>

(* ------------------------ Python object helpers ----------------------- *)
None == "None"

\* self.<k> = v
setattr(obj, k, v) == [x \in (DOMAIN obj) \cup {k} |-> IF x = k THEN v ELSE obj[x]]

\* hasattr(self, k)
hasattr(obj, k) == k \in DOMAIN obj

\* the order in which dir(self) lists the attributes a Monitor can have
dir_order ==
    << "accum", "batch_size", "batches", "batches_seen", "begin_record_entry",
       "channels", "dataset", "dirty", "examples_seen", "model", "names_to_del" >>

SeqToSet(s) == {s[i] : i \in 1..Len(s)}

(* ------------------------- the dataset interface ---------------------- *)
\* the dataset object handed to set_dataset, the string __getstate__ stores for it
\* (dataset.yaml_src), and the object yaml_parse.load builds from that string
DatasetObj == "ds"
DatasetStr == "!obj:ds"
DatasetLoaded == "ds_loaded"

yaml_src(d) == DatasetStr
yaml_load(s) == DatasetLoaded
isstr(d) == d = DatasetStr

\* the example at position p of the stream (both objects hold the same data)
Example(p) == p + 1

\* d.get_batch_design(batch_size) at stream position p: the next batch_size
\* examples, and the position after them
get_batch_design(p, batch_size) ==
    [X |-> [k \in 1..batch_size |-> Example((p + k - 1) % StreamLen)],
     pos |-> (p + batch_size) % StreamLen]

(* ------------------------ symbolic expressions ------------------------ *)
RECURSIVE SumSeq(_)
SumSeq(s) == IF s = <<>> THEN 0 ELSE Head(s) + SumSeq(Tail(s))

RECURSIVE MaxSeq(_)
MaxSeq(s) == IF s = <<>> THEN 0
             ELSE LET r == MaxSeq(Tail(s)) IN IF Head(s) > r THEN Head(s) ELSE r

\* the value of the expression `val` with its input clamped to the batch X
\* (givens[channel.ipt] = X)
TensorEval(val, X) == IF val = "sum" THEN SumSeq(X) ELSE MaxSeq(X)

(* ------------------------------ Channel ------------------------------- *)
Channel_init(ipt, val, name) ==
    [ipt |-> ipt, val |-> val, val_shared |-> 0,
     batch_record |-> <<>>, example_record |-> <<>>, val_record |-> <<>>]

(* ------------------------------ Monitor ------------------------------- *)
Monitor_init(model) ==
    [model |-> model, channels |-> <<>>, batches_seen |-> 0, examples_seen |-> 0,
     dataset |-> None, dirty |-> TRUE, names_to_del |-> <<>>]

set_dataset(self, dataset, batches, batch_size) ==
    setattr(setattr(setattr(self, "dataset", dataset), "batches", batches),
            "batch_size", batch_size)

register_names_to_del(self, names) ==
    LET RECURSIVE reg(_, _)
        reg(acc, ns) ==
            IF ns = <<>> THEN acc
            ELSE reg(IF Head(ns) \in SeqToSet(acc) THEN acc ELSE Append(acc, Head(ns)),
                     Tail(ns))
    IN [self EXCEPT !.names_to_del = reg(self.names_to_del, names)]

\* begin_record_entry is modelled by the set of accumulators it resets, accum
\* by the expression it adds to each accumulator it updates
redo_theano(self) ==
    LET s1 == [self EXCEPT !.dirty = FALSE]
        init_names == DOMAIN s1
        s2 == setattr(s1, "begin_record_entry", DOMAIN s1.channels)
        s3 == setattr(s2, "accum", [c \in DOMAIN s2.channels |-> s2.channels[c].val])
        final_names == DOMAIN s3
        new == SelectSeq(dir_order, LAMBDA n : n \in final_names /\ n \notin init_names)
    IN register_names_to_del(s3, new)

\* a begin_record_entry whose updates dict was left empty: nothing is reset
run_begin_record_entry_no_reset(self) == self

\* self.begin_record_entry(): every accumulator in the compiled updates := 0.0
run_begin_record_entry(self) ==
    [self EXCEPT !.channels =
        [c \in DOMAIN self.channels |->
            IF c \in self.begin_record_entry
            THEN [self.channels[c] EXCEPT !.val_shared = 0]
            ELSE self.channels[c]]]

\* self.accum(X): every accumulator in the compiled updates += its expression on X
run_accum(self, X) ==
    [self EXCEPT !.channels =
        [c \in DOMAIN self.channels |->
            IF c \in DOMAIN self.accum
            THEN [self.channels[c] EXCEPT
                     !.val_shared = @ + TensorEval(self.accum[c], X)]
            ELSE self.channels[c]]]

\* the loop `for i in xrange(self.batches)` of __call__, from iteration i on;
\* raises AttributeError when self.accum does not exist
RECURSIVE accum_loop(_, _, _)
accum_loop(self, pos, i) ==
    IF i >= self.batches THEN [self |-> self, pos |-> pos, raised |-> None]
    ELSE LET b == get_batch_design(pos, self.batch_size)
         IN IF ~hasattr(self, "accum")
            THEN [self |-> self, pos |-> b.pos, raised |-> "AttributeError"]
            ELSE accum_loop(run_accum(self, b.X), b.pos, i + 1)

\* the loop `for channel_name in self.channels` of __call__.  A recorded value
\* val_shared / float(batches) is kept as the pair <<val_shared, batches>>.
record_channels(self) ==
    [self EXCEPT !.channels =
        [c \in DOMAIN self.channels |->
            [self.channels[c] EXCEPT
                !.batch_record = Append(@, self.batches_seen),
                !.example_record = Append(@, self.examples_seen),
                !.val_record = Append(@, <<self.channels[c].val_shared, self.batches>>)]]]

\* Monitor.__call__: the monitor and the stream positions it leaves, and the
\* exception it raised
Monitor_call(self, st) ==
    LET s1 == IF self.dirty THEN redo_theano(self) ELSE self
    IN IF s1.dataset = None
       THEN [self |-> s1, stream |-> st, raised |-> None]
       ELSE LET d == IF isstr(s1.dataset) THEN yaml_load(s1.dataset) ELSE s1.dataset
                s2 == IF isstr(s1.dataset) THEN [s1 EXCEPT !.dataset = d] ELSE s1
                \* a dataset built by yaml_parse.load starts at the beginning
                st1 == IF isstr(s1.dataset) THEN [st EXCEPT ![d] = 0] ELSE st
                s == st1[d]
                st2 == [st1 EXCEPT ![d] = 0]
            IN IF ~hasattr(s2, "begin_record_entry")
               THEN [self |-> s2, stream |-> st2, raised |-> "AttributeError"]
               ELSE LET r == accum_loop(run_begin_record_entry(s2), 0, 0)
                    IN IF r.raised # None
                       THEN [self |-> r.self, stream |-> [st2 EXCEPT ![d] = r.pos],
                             raised |-> r.raised]
                       ELSE [self |-> record_channels(r.self),
                             stream |-> [st2 EXCEPT ![d] = s],
                             raised |-> None]

\* add_channel with the duplicate check made after the channel is stored
add_channel_check_late(self, name, ipt, val) ==
    [self |-> [setattr(self, "channels",
                       [c \in (DOMAIN self.channels) \cup {name} |->
                           IF c = name THEN Channel_init(ipt, val, name)
                           ELSE self.channels[c]])
               EXCEPT !.dirty = TRUE],
     raised |-> IF name \in DOMAIN self.channels THEN "ValueError" ELSE None]

\* add_channel that forgets to mark the monitor dirty
add_channel_not_dirty(self, name, ipt, val) ==
    IF name \in DOMAIN self.channels
    THEN [self |-> self, raised |-> "ValueError"]
    ELSE [self |-> setattr(self, "channels",
                           self.channels @@ (name :> Channel_init(ipt, val, name))),
          raised |-> None]

\* Monitor.add_channel
add_channel(self, name, ipt, val) ==
    IF name \in DOMAIN self.channels
    THEN [self |-> self, raised |-> "ValueError"]
    ELSE [self |-> [setattr(self, "channels",
                            self.channels @@ (name :> Channel_init(ipt, val, name)))
                    EXCEPT !.dirty = TRUE],
          raised |-> None]

\* Monitor.__getstate__: the dict it returns; self.dataset.yaml_src raises
\* AttributeError when the dataset is None
getstate(self) ==
    IF self.dataset = None
    THEN [d |-> <<>>, raised |-> "AttributeError"]
    ELSE LET ds == IF ~isstr(self.dataset) THEN yaml_src(self.dataset) ELSE self.dataset
             copy == [self EXCEPT !.dataset = ds]
             keep == (DOMAIN copy) \ SeqToSet(self.names_to_del)
         IN [d |-> <<[k \in keep |-> copy[k]]>>, raised |-> None]

\* Monitor.__setstate__ on the object pickle creates: an empty __dict__ updated with d
setstate(d) == d

(* -------------------------------- GSN --------------------------------- *)
(* A symbolic activation is modelled by what the graph built so far makes  *)
(* of it: its layer, whether it is still T.zeros_like(...), whether it     *)
(* depends on the minibatch, how often _update_activations recomputed it,  *)
(* how often a post-activation corruptor was applied to it, and whether    *)
(* the clamped values were mixed into it.  Layers are numbered from 0 as   *)
(* in the source; layer i is element i + 1 of the sequence.                *)

\* range(lo, hi, 2) as a sequence
RECURSIVE range2(_, _)
range2(lo, hi) == IF lo >= hi THEN <<>> ELSE <<lo>> \o range2(lo + 2, hi)

min(a, b) == IF a < b THEN a ELSE b

\* self.postact_cors[i](x)
postact_cor(x) == [x EXCEPT !.ncor = @ + 1, !.zero = FALSE]

\* GSN._set_activations: the corrupted minibatch, then one zero per autoencoder
GSN_set_activations(naes) ==
    [j \in 1..(naes + 1) |->
        IF j = 1
        THEN postact_cor([layer |-> 0, zero |-> FALSE, signal |-> TRUE, nupd |-> 0,
                          ncor |-> 0, clamp |-> FALSE])
        ELSE [layer |-> j - 1, zero |-> TRUE, signal |-> FALSE, nupd |-> 0,
              ncor |-> 0, clamp |-> FALSE]]

\* GSN._apply_postact_corruption
RECURSIVE GSN_apply_postact_corruption(_, _)
GSN_apply_postact_corruption(acts, idx_iter) ==
    IF idx_iter = <<>> THEN acts
    ELSE GSN_apply_postact_corruption(
             [acts EXCEPT ![Head(idx_iter) + 1] = postact_cor(@)], Tail(idx_iter))

\* the activation layer i gets in GSN._update_activations: from_above(i) reads
\* layer i + 1, from_below(i) layer i - 1; the pre-activation corruptor and
\* the activation function act on the result
update_activation(acts, i) ==
    LET n == Len(acts)
        sig == IF i = 0 THEN acts[i + 2].signal
               ELSE IF i = n - 1 THEN acts[i].signal
               ELSE acts[i].signal \/ acts[i + 2].signal
    IN [layer |-> i, zero |-> FALSE, signal |-> sig, nupd |-> acts[i + 1].nupd + 1,
        ncor |-> 0, clamp |-> FALSE]

\* GSN._update_activations; from_above(0) raises IndexError when there is no
\* autoencoder (self.aes[0])
RECURSIVE GSN_update_activations(_, _)
GSN_update_activations(acts, idx_iter) ==
    IF idx_iter = <<>> THEN [acts |-> acts, raised |-> None]
    ELSE LET i == Head(idx_iter)
         IN IF i = 0 /\ Len(acts) = 1
            THEN [acts |-> acts, raised |-> "IndexError"]
            ELSE GSN_update_activations(
                     [acts EXCEPT ![i + 1] = update_activation(acts, i)], Tail(idx_iter))

\* _update whose even range reaches one layer pair too far
GSN_update_too_far(acts, time) ==
    LET odds == range2(1, min(2 * time, Len(acts)))
        r1 == GSN_update_activations(acts, odds)
        a2 == GSN_apply_postact_corruption(r1.acts, odds)
        evens == range2(0, min(2 * time + 3, Len(acts)))
    IN IF r1.raised # None THEN r1 ELSE GSN_update_activations(a2, evens)

\* GSN._update(time), as GSN._run calls it (time is never None there)
GSN_update(acts, time) ==
    LET odds == range2(1, min(2 * time, Len(acts)))
        r1 == GSN_update_activations(acts, odds)
        a2 == GSN_apply_postact_corruption(r1.acts, odds)
        evens == range2(0, min(2 * time + 1, Len(acts)))
    IN IF r1.raised # None THEN r1 ELSE GSN_update_activations(a2, evens)

\* self.activations[0] * unclamped + clamped_vals
clamp_visible(acts) == [acts EXCEPT ![1] = [@ EXCEPT !.clamp = TRUE, !.signal = TRUE]]

\* self.activations[:(2 * time) + 1]
slice_steps(acts, time) == SubSeq(acts, 1, min(2 * time + 1, Len(acts)))

\* one iteration of the loop of GSN._run
run_iteration(g) ==
    LET r == GSN_update(g.activations, g.time)
        a1 == IF g.clamped THEN clamp_visible(r.acts) ELSE r.acts
        steps == Append(g.steps, slice_steps(a1, g.time))
        evens == range2(0, min(2 * g.time + 1, Len(a1)))
    IN IF r.raised # None
       THEN [g EXCEPT !.pc = "raised", !.activations = r.acts]
       ELSE [g EXCEPT !.activations = GSN_apply_postact_corruption(a1, evens),
                      !.steps = steps, !.time = @ + 1]

(* ------------------------------ actions ------------------------------- *)
GsnIdle == [pc |-> "idle"]

Init ==
    /\ monitor = Monitor_init("model")
    /\ stream \in [{DatasetObj, DatasetLoaded} -> 0..(StreamLen - 1)]
    /\ stream[DatasetLoaded] = 0
    /\ calls = 0
    /\ last = [op |-> "__init__", args |-> <<>>, raised |-> None]
    /\ gsn = GsnIdle

SetDataset ==
    \E batches \in 1..MaxBatches, batch_size \in BatchSizes :
        /\ monitor' = set_dataset(monitor, DatasetObj, batches, batch_size)
        /\ last' = [op |-> "set_dataset", args |-> <<>>, raised |-> None]
        /\ UNCHANGED <<stream, calls, gsn>>

Call ==
    /\ calls < MaxCalls
    /\ LET r == Monitor_call(monitor, stream)
       IN /\ monitor' = r.self
          /\ stream' = r.stream
          /\ last' = [op |-> "__call__", args |-> <<>>, raised |-> r.raised]
    /\ calls' = calls + 1
    /\ UNCHANGED gsn

AddChannel ==
    \E name \in Names, e \in Exprs :
        LET r == add_channel(monitor, name, e.ipt, e.val)
        IN /\ monitor' = r.self
           /\ last' = [op |-> "add_channel", args |-> <<name, e.ipt, e.val>>,
                       raised |-> r.raised]
           /\ UNCHANGED <<stream, calls, gsn>>

\* pickle.loads(pickle.dumps(monitor)): __getstate__ on the monitor, then
\* __setstate__ on the new object, which takes the monitor's place
Reload ==
    LET r == getstate(monitor)
    IN /\ monitor' = IF r.raised = None THEN setstate(r.d[1]) ELSE monitor
       /\ last' = [op |-> "pickle", args |-> <<>>, raised |-> r.raised]
       /\ UNCHANGED <<stream, calls, gsn>>

\* GSN._run up to its loop: _set_activations, then steps = [[activations[0]]]
RunStart ==
    /\ gsn.pc = "idle"
    /\ \E naes \in 0..MaxAes, walkback \in 0..MaxWalkback, clamped \in BOOLEAN :
          LET acts == GSN_set_activations(naes)
          IN gsn' = [pc |-> "loop", naes |-> naes, walkback |-> walkback,
                     clamped |-> clamped, activations |-> acts,
                     steps |-> << <<acts[1]>> >>, time |-> 1]
    /\ UNCHANGED <<monitor, stream, calls, last>>

\* for time in xrange(1, len(self.aes) + walkback + 1)
RunStep ==
    /\ gsn.pc = "loop"
    /\ gsn.time <= gsn.naes + gsn.walkback
    /\ gsn' = run_iteration(gsn)
    /\ UNCHANGED <<monitor, stream, calls, last>>

\* return steps
RunReturn ==
    /\ gsn.pc = "loop"
    /\ gsn.time > gsn.naes + gsn.walkback
    /\ gsn' = [gsn EXCEPT !.pc = "done"]
    /\ UNCHANGED <<monitor, stream, calls, last>>

Next == SetDataset \/ Call \/ AddChannel \/ Reload

Spec == Init /\ [][Next]_vars

NextGSN == RunStart \/ RunStep \/ RunReturn

SpecGSN == Init /\ [][NextGSN]_vars

\* the monitor in use: set_dataset, add_channel and __call__ only
NextInUse == SetDataset \/ Call \/ AddChannel

SpecInUse == Init /\ [][NextInUse]_vars

(* ------------------------------- claims ------------------------------- *)
Last(s) == s[Len(s)]

\* C1: each invocation of Monitor.__call__ makes batch_record, example_record
\* and val_record of every channel exactly one entry longer.
EveryCallAddsOnePoint ==
    [][calls' = calls + 1 =>
          \A c \in DOMAIN monitor.channels :
              /\ c \in DOMAIN monitor'.channels
              /\ Len(monitor'.channels[c].batch_record)
                     = Len(monitor.channels[c].batch_record) + 1
              /\ Len(monitor'.channels[c].example_record)
                     = Len(monitor.channels[c].example_record) + 1
              /\ Len(monitor'.channels[c].val_record)
                     = Len(monitor.channels[c].val_record) + 1]_vars

\* C2: add_channel with a name that is already a key of channels raises
\* ValueError and leaves the monitor (every channel, the set of channels,
\* dirty, and all other attributes) as it was.
AddExistingChannelRaises ==
    [][(last'.op = "add_channel" /\ last'.args[1] \in DOMAIN monitor.channels) =>
          /\ last'.raised = "ValueError"
          /\ monitor' = monitor]_vars

\* C2's case: add_channel has just raised for a channel that holds a data
\* point and whose val differs from the one passed
AddExistingChannelRaised ==
    /\ last.op = "add_channel"
    /\ last.raised = "ValueError"
    /\ last.args[1] \in DOMAIN monitor.channels
    /\ monitor.channels[last.args[1]].val # last.args[3]
    /\ Len(monitor.channels[last.args[1]].val_record) >= 1
    /\ ~monitor.dirty

\* C3: under any interleaving of set_dataset, add_channel and __call__, a
\* __call__ made with a dataset set compiles first if the monitor is dirty,
\* resets and accumulates exactly the current channels, and gives every
\* current channel, old or new, one more data point.
CallCoversCurrentChannels ==
    [][(calls' = calls + 1 /\ monitor.dataset # None) =>
          /\ last'.raised = None
          /\ ~monitor'.dirty
          /\ hasattr(monitor', "begin_record_entry") /\ hasattr(monitor', "accum")
          /\ monitor'.begin_record_entry = DOMAIN monitor.channels
          /\ DOMAIN monitor'.accum = DOMAIN monitor.channels
          /\ DOMAIN monitor'.channels = DOMAIN monitor.channels
          /\ \A c \in DOMAIN monitor.channels :
                /\ monitor'.accum[c] = monitor.channels[c].val
                /\ monitor'.channels[c].batch_record
                       = Append(monitor.channels[c].batch_record, monitor.batches_seen)
                /\ monitor'.channels[c].example_record
                       = Append(monitor.channels[c].example_record, monitor.examples_seen)
                /\ Len(monitor'.channels[c].val_record)
                       = Len(monitor.channels[c].val_record) + 1]_vars

\* C3's case: a channel added after the first __call__ got its data point in
\* the second, beside a channel that now has two
NewChannelGotItsPoint ==
    /\ last.op = "__call__"
    /\ last.raised = None
    /\ \E c, n \in DOMAIN monitor.channels :
          /\ Len(monitor.channels[c].val_record) = 2
          /\ Len(monitor.channels[n].val_record) = 1

\* the activations a layer must hold at time t of GSN._run
top_layer(t, naes) == min(2 * t, naes)

\* C4: steps[t] holds exactly layers 0..min(2t, len(aes)); each of them is set
\* from the minibatch or was updated at least once and is no longer zero; a
\* layer above them is still the zero _set_activations made it, never updated;
\* the returned list has one entry per time 0..len(aes)+walkback.
StepsHoldReachedLayers ==
    gsn.pc \in {"loop", "done"} =>
        LET now == Len(gsn.steps) - 1
        IN /\ \A t \in 0..now :
                 /\ Len(gsn.steps[t + 1]) = top_layer(t, gsn.naes) + 1
                 /\ \A i \in 0..top_layer(t, gsn.naes) :
                        LET e == gsn.steps[t + 1][i + 1]
                        IN /\ e.layer = i
                           /\ ~e.zero
                           /\ e.signal
                           /\ (i = 0 \/ e.nupd >= 1)
                           /\ (t >= 1 => e.nupd >= 1)
           /\ \A i \in 0..gsn.naes :
                 i > top_layer(now, gsn.naes) =>
                     LET a == gsn.activations[i + 1]
                     IN a.layer = i /\ a.zero /\ a.nupd = 0 /\ a.ncor = 0 /\ ~a.signal
           /\ (gsn.pc = "done" => Len(gsn.steps) = gsn.naes + gsn.walkback + 1)

\* C4's case: _run returned for a network whose top layers the input reached
\* only at time 2, after a walkback step
RunReturnedShortFirstSteps ==
    /\ gsn.pc = "done"
    /\ gsn.naes = 4
    /\ gsn.walkback >= 1
    /\ Len(gsn.steps[1]) = 1 /\ Len(gsn.steps[2]) = 3 /\ Len(gsn.steps[3]) = 5
    /\ Len(gsn.steps[4]) = 5

\* the k-th batch (from 0) a restarted stream yields
BatchOfCall(k, batch_size) ==
    [j \in 1..batch_size |-> Example((k * batch_size + j - 1) % StreamLen)]

\* the sum of `val` over the first n batches of a restarted stream
RECURSIVE SumOverBatches(_, _, _)
SumOverBatches(val, n, batch_size) ==
    IF n = 0 THEN 0
    ELSE SumOverBatches(val, n - 1, batch_size)
             + TensorEval(val, BatchOfCall(n - 1, batch_size))

\* C5: when __call__ has recorded, each channel's val_shared is the sum of its
\* value over the `batches` batches drawn from the restarted stream in this
\* call and nothing else, and the entry appended to val_record is that sum
\* over `batches`.
RecordedValueIsThisCallsSum ==
    (last.op = "__call__" /\ last.raised = None /\ monitor.dataset # None) =>
        \A c \in DOMAIN monitor.channels :
            LET ch == monitor.channels[c]
                sum == SumOverBatches(ch.val, monitor.batches, monitor.batch_size)
            IN /\ ch.val_shared = sum
               /\ ch.val_record # <<>>
               /\ Last(ch.val_record) = <<sum, monitor.batches>>

\* C5's case: a second recording whose value differs from the first, on a
\* dataset whose stream was not at its start when __call__ began
SecondRecordingDiffers ==
    /\ last.op = "__call__"
    /\ last.raised = None
    /\ monitor.dataset = DatasetObj
    /\ stream[DatasetObj] # 0
    /\ \E c \in DOMAIN monitor.channels :
          /\ Len(monitor.channels[c].val_record) = 2
          /\ monitor.channels[c].val_record[1] # monitor.channels[c].val_record[2]

=============================================================================
